---- MODULE Spec2Model ----
(***************************************************************************)
(* A model of wallet_finder/core.py: WalletFinder.__init__,                *)
(* WalletFinder.process and WalletFinder.start, with the two files the     *)
(* program keeps between runs (config.json's "progress" and                *)
(* found_wallets.csv), the worker pool of one batch, and process crashes.  *)
(***************************************************************************)
EXTENDS Integers, Sequences, FiniteSets, TLC

VARIABLES
    progress,        \* config.json on disk: config["progress"]
    csv,             \* found_wallets.csv on disk: the sequence of its rows
    target,          \* target_address, the set of identifiers searched for
    pc,              \* position of the coordinating process in start()
    resume,          \* the resume argument of the current call of start()
    config,          \* the in-memory config["progress"] of the current call
    start_from,      \* the local start_from
    tail,            \* what islice(combinations, start_from, None) has left
    count,           \* enumerate's counter: the index the next chunk gets
    index,           \* the loop variable index
    chunk,           \* the loop variable chunk (a sequence of candidates)
    inflight,        \* candidates handed to the pool and not yet resolved
    process_results, \* the list results.get() returned
    ri,              \* position of the for loop over process_results
    status,          \* the last argument given to update_status_func
    notified,        \* the calls of update_list_func made by this call
    evaluated,       \* history: ranks of the batches evaluated in full since
                     \* the last fresh start
    runEval,         \* history: ranks evaluated by the current call
    dispatched,      \* history: candidates dispatched by the current call
    loaded,          \* history: config["progress"] as get_config returned it
    csv0,            \* history: the store when the current call entered its loop
    wroteAfter,      \* history: batch numbers of this call followed by a save
    writes,          \* history: number of save_config calls of this call
    lastWrite,       \* history: the last value saved since the last fresh start
    runs,            \* number of calls of start() so far
    wordlist,        \* the wordlist argument of the current call
    num_processes,   \* multiprocessing.cpu_count() of the machine
    batchFailed      \* history: results.get() of this call raised

vars == <<progress, csv, target, pc, resume, config, start_from, tail, count,
          index, chunk, inflight, process_results, ri, status, notified,
          evaluated, runEval, dispatched, loaded, csv0, wroteAfter, writes,
          lastWrite, runs, wordlist, num_processes, batchFailed>>

(***************************************************************************)
(* Bounds of the model.  The program takes chunks of cpu_count() * 1000    *)
(* permutations of 12 words; the model keeps the structure and shrinks     *)
(* the numbers.                                                            *)
(***************************************************************************)
NumProcesses == 2      \* multiprocessing.cpu_count()
PerProcess == 1        \* candidates per process in one chunk (1000)
PhraseLen == 3         \* words in one candidate (12)
MaxRuns == 3           \* calls of start() in one behaviour

CheckpointEvery == 10  \* "if index % 10 == 0"

chunk_size == num_processes * PerProcess

(***************************************************************************)
(* Words are sequences of characters, so that lower() and strip() do       *)
(* something.  The pool has one upper-case word and two padded ones.       *)
(***************************************************************************)
Wordlist == << <<"A">>, <<"b", " ">>, <<" ", "c">>, <<"d">> >>

(* two smaller pools: one with exactly PhraseLen words at the base bounds, *)
(* one with fewer words than a candidate has                               *)
Wordlist3 == << <<"a">>, <<"B">>, <<"c", " ">> >>
Wordlist2 == << <<"a">>, <<"b">> >>
Wordlists == {Wordlist, Wordlist3, Wordlist2}

Header == << <<"Seed Phrase">>, <<"TRX Address">> >>

Min(a, b) == IF a < b THEN a ELSE b

Range(s) == {s[i] : i \in DOMAIN s}

RemoveAt(s, i) == SubSeq(s, 1, i - 1) \o SubSeq(s, i + 1, Len(s))

RECURSIVE Concat(_)
Concat(ss) == IF ss = <<>> THEN <<>> ELSE Head(ss) \o Concat(Tail(ss))

(* itertools.permutations(pool, r): the r-length tuples of elements of     *)
(* pool at distinct positions, in lexicographic order of the positions.    *)
(* r > len(pool) yields nothing.                                           *)
RECURSIVE permutations(_, _)
permutations(pool, r) ==
    IF r = 0 THEN << <<>> >>
    ELSE IF r > Len(pool) THEN <<>>
    ELSE Concat([i \in 1..Len(pool) |->
             LET rest == permutations(RemoveAt(pool, i), r - 1)
             IN  [j \in 1..Len(rest) |-> <<pool[i]>> \o rest[j]]])

(* Line 105: combinations = itertools.permutations(wordlist, 12) *)
combinations == permutations(Wordlist, PhraseLen)

(* itertools.permutations(wordlist, 12) for the wordlist of a call *)
CombinationsOf(w) ==
    IF w = Wordlist THEN combinations ELSE permutations(w, PhraseLen)

(* a skip past the end starting over from the front *)
IsliceWrapped(s, start) ==
    IF s = <<>> THEN s ELSE SubSeq(s, (start % Len(s)) + 1, Len(s))

(* a skip that is one element too long *)
IsliceOffByOne(s, start) == SubSeq(s, start + 2, Len(s))

(* no skip at all *)
IsliceNoSkip(s, start) == s

(* itertools.islice(it, start, None) *)
Islice(s, start) == SubSeq(s, start + 1, Len(s))

(* one step of more_itertools.chunked(it, n): the next chunk *)
Take(s, n) == SubSeq(s, 1, Min(n, Len(s)))
Drop(s, n) == SubSeq(s, Min(n, Len(s)) + 1, Len(s))

(***************************************************************************)
(* WalletFinder.process                                                    *)
(***************************************************************************)
(* str.lower() on the characters of the model's alphabet *)
Lower(ch) ==
    CASE ch = "A" -> "a" [] ch = "B" -> "b" [] ch = "C" -> "c"
      [] ch = "D" -> "d" [] OTHER -> ch

LowerWord(w) == [i \in 1..Len(w) |-> Lower(w[i])]

(* str.strip(): leading and trailing blanks removed *)
RECURSIVE Strip(_)
Strip(w) ==
    IF w = <<>> THEN w
    ELSE IF Head(w) = " " THEN Strip(Tail(w))
    ELSE IF w[Len(w)] = " " THEN Strip(SubSeq(w, 1, Len(w) - 1))
    ELSE w

(* " ".join(words) *)
RECURSIVE Join(_)
Join(ws) ==
    IF ws = <<>> THEN <<>>
    ELSE IF Len(ws) = 1 THEN ws[1]
    ELSE ws[1] \o <<" ">> \o Join(Tail(ws))

(* seeds = " ".join(map(lambda x: x.lower().strip(), seeds)) *)
Normalize(seeds) == Join([i \in 1..Len(seeds) |-> Strip(LowerWord(seeds[i]))])

(* The derivation collaborator, CryptoWallet(seeds).get_trx_address(): a    *)
(* deterministic function of the phrase that yields an address, rejects the *)
(* phrase as invalid (ValueError) or fails otherwise.  The model takes a    *)
(* positional checksum of the letters to decide which.                      *)
LetterVal(ch) ==
    CASE ch = "a" -> 1 [] ch = "b" -> 2 [] ch = "c" -> 3 [] ch = "d" -> 4
      [] OTHER -> 0

RECURSIVE Checksum(_, _)
Checksum(phrase, i) ==
    IF i > Len(phrase) THEN 0
    ELSE i * LetterVal(phrase[i]) + Checksum(phrase, i + 1)

CryptoWallet(phrase) ==
    LET c == Checksum(phrase, 1) IN
    IF c % 4 = 0 THEN [kind |-> "ValueError", address |-> <<>>]
    ELSE IF c % 7 = 3 THEN [kind |-> "Exception", address |-> <<>>]
    ELSE [kind |-> "address",
          address |-> <<"T">> \o SelectSeq(phrase, LAMBDA ch : ch # " ")]

NoMatch == <<FALSE, <<<<>>, <<>>>>>>     \* False, [None, None]

(* a match reported for every derived address, in the target set or not *)
processAnyAddress(seeds, target_address) ==
    LET phrase == Normalize(seeds)
        wallet == CryptoWallet(phrase)
    IN  IF wallet.kind = "address"
        THEN <<TRUE, <<phrase, wallet.address>>>>
        ELSE NoMatch

(* What a call of process hands back when it lets an exception escape:     *)
(* the pool keeps it and results.get() raises it again.                    *)
Raised == <<"raise">>

(* only ValueError caught: any other exception of the derivation escapes *)
processOnlyValueError(seeds, target_address) ==
    LET phrase == Normalize(seeds)
        wallet == CryptoWallet(phrase)
    IN  IF wallet.kind = "address" /\ wallet.address \in target_address
        THEN <<TRUE, <<phrase, wallet.address>>>>
        ELSE IF wallet.kind = "Exception" THEN Raised
        ELSE NoMatch

(* Lines 54-79: normalize, derive, compare; every Exception of the         *)
(* derivation is caught (line 74) and the no-match outcome returned.       *)
process(seeds, target_address) ==
    LET phrase == Normalize(seeds)
        wallet == CryptoWallet(phrase)
    IN  IF wallet.kind = "address" /\ wallet.address \in target_address
        THEN <<TRUE, <<phrase, wallet.address>>>>
        ELSE NoMatch

(***************************************************************************)
(* WalletFinder.__init__ and the state before the first call of start()    *)
(***************************************************************************)
(* The target sets a behaviour may search for: none, or four identifiers   *)
(* of which some are derived from candidates of the pool, two of them from *)
(* candidates of one batch.                                                *)
TargetChoices ==
    { {},
      { <<"T", "a", "b", "c">>, <<"T", "a", "b", "d">>, <<"T", "a", "c", "d">>,
        <<"T", "a", "b", "c", "d">> } }

Init ==
    /\ progress = 0
    /\ csv = <<Header>>
    /\ target \in TargetChoices
    /\ pc = "idle"
    /\ resume = FALSE
    /\ config = 0
    /\ start_from = 0
    /\ tail = <<>>
    /\ count = 0
    /\ index = 0
    /\ chunk = <<>>
    /\ inflight = {}
    /\ process_results = <<>>
    /\ ri = 0
    /\ status = <<"none">>
    /\ notified = <<>>
    /\ evaluated = {}
    /\ runEval = {}
    /\ dispatched = <<>>
    /\ loaded = 0
    /\ csv0 = <<Header>>
    /\ wroteAfter = {}
    /\ writes = 0
    /\ lastWrite = 0
    /\ runs = 0
    /\ wordlist = Wordlist
    /\ num_processes = NumProcesses
    /\ batchFailed = FALSE

(***************************************************************************)
(* WalletFinder.start                                                      *)
(***************************************************************************)
(* the index of a batch being its number counted from 0 *)
EnumStartAtBatch(from) == from \div chunk_size

(* the index running one batch ahead instead of one batch behind *)
EnumStartAhead(from) == (from \div chunk_size) + 1

(* enumerate(..., start=int(start_from / chunk_size) - 1) *)
EnumStart(from) == (from \div chunk_size) - 1

(* the count taken at the end of the batch of index i, not at its start *)
ProcessCountAtEnd(i) == (i + 2) * chunk_size

(* Lines 124 and 142: process_count, and the value given to               *)
(* config["progress"]: (index + 1) * chunk_size                            *)
ProcessCount(i) == (i + 1) * chunk_size

(* a save after every batch *)
ShouldCheckpointAlways(i) == TRUE

(* if index % 10 == 0 *)
ShouldCheckpoint(i) == i % CheckpointEvery = 0

(* the results taken without waiting for the batch *)
ResultsReadyNoWait == TRUE

(* results.wait() returns once every call of the batch has finished *)
ResultsReady == inflight = {}

(* a resume that starts from rank 0 all the same *)
StartFromZero(r, p) == 0

(* start_from = config["progress"] if resume else 0 *)
StartFrom(r, p) == IF r THEN p ELSE 0

(* the store left as it is by a fresh run as well *)
OpenStoreKept(r, store) == store

(* Lines 111-115: a fresh run rewrites the store with the header alone; a  *)
(* resumed run leaves it as it is.                                         *)
OpenStore(r, store) == IF r THEN store ELSE <<Header>>

(* Lines 102-120: read the config, build the generator, report, truncate   *)
(* the store unless resuming, open the pool.                               *)
Start(r, w) ==
    /\ pc \in {"idle", "done", "crashed"}
    /\ runs < MaxRuns
    /\ runs' = runs + 1
    /\ lastWrite' = IF r THEN lastWrite ELSE 0
    /\ evaluated' = IF r THEN evaluated ELSE {}
    /\ resume' = r
    /\ config' = progress
    /\ loaded' = progress
    /\ start_from' = StartFrom(r, progress)
    /\ wordlist' = w
    /\ tail' = Islice(CombinationsOf(w), start_from')
    /\ count' = EnumStart(start_from')
    /\ index' = count'
    /\ status' = <<"Starting Process...">>
    /\ csv' = OpenStore(r, csv)
    /\ csv0' = csv'
    /\ chunk' = <<>>
    /\ inflight' = {}
    /\ process_results' = <<>>
    /\ ri' = 0
    /\ notified' = <<>>
    /\ runEval' = {}
    /\ dispatched' = <<>>
    /\ wroteAfter' = {}
    /\ writes' = 0
    /\ batchFailed' = FALSE
    /\ pc' = "loop"
    /\ UNCHANGED <<progress, target, num_processes>>

(* Rank of a candidate: its 0-based position in the full enumeration. *)
RankOf(c) ==
    LET all == CombinationsOf(wordlist)
    IN  (CHOOSE i \in 1..Len(all) : all[i] = c) - 1

(* Line 123, the generator exhausted: the for loop and the pool's with     *)
(* block end and start() returns.                                          *)
Exhausted ==
    /\ pc = "loop"
    /\ tail = <<>>
    /\ pc' = "done"
    /\ UNCHANGED <<progress, csv, target, resume, config, start_from, tail,
                   count, index, chunk, inflight, process_results, ri, status,
                   notified, evaluated, runEval, dispatched, loaded, csv0,
                   wroteAfter, writes, lastWrite,
                   runs, wordlist,
                   num_processes, batchFailed>>

(* Lines 123-126: take the next chunk and its index, report the count,     *)
(* hand every candidate of the chunk to the pool.                          *)
Dispatch ==
    /\ pc = "loop"
    /\ tail # <<>>
    /\ chunk' = Take(tail, chunk_size)
    /\ tail' = Drop(tail, chunk_size)
    /\ index' = count
    /\ count' = count + 1
    /\ status' = <<"Checking Wallet", ProcessCount(index'), num_processes>>
    /\ inflight' = inflight \cup Range(chunk')
    /\ dispatched' = dispatched \o chunk'
    /\ pc' = "wait"
    /\ UNCHANGED <<progress, csv, target, resume, config, start_from,
                   process_results, ri, notified, evaluated, runEval, loaded,
                   csv0, wroteAfter, writes, lastWrite,
                   runs, wordlist,
                   num_processes, batchFailed>>

(* A pool worker finishes WalletFinder.process for one candidate of the    *)
(* batch; the workers finish in any order.                                 *)
Worker(c) ==
    /\ c \in inflight
    /\ pc \notin {"idle", "done", "crashed", "failed"}
    /\ inflight' = inflight \ {c}
    /\ evaluated' = IF inflight' = {}
                    THEN evaluated \cup {RankOf(chunk[i]) : i \in DOMAIN chunk}
                    ELSE evaluated
    /\ runEval' = runEval \cup {RankOf(c)}
    /\ UNCHANGED <<progress, csv, target, pc, resume, config, start_from, tail,
                   count, index, chunk, process_results, ri, status, notified,
                   dispatched, loaded, csv0, wroteAfter, writes, lastWrite,
                   runs, wordlist,
                   num_processes, batchFailed>>

(* the outcomes in the reverse of the order of the chunk *)
ResultsReversed(ch, tgt) ==
    [i \in 1..Len(ch) |-> process(ch[Len(ch) + 1 - i], tgt)]

(* results.get() of starmap_async: the outcomes in the order of the chunk *)
ResultsOf(ch, tgt) == [i \in 1..Len(ch) |-> process(ch[i], tgt)]

(* Lines 128-129: results.wait(); process_results = results.get().  An     *)
(* exception that escaped a call of process is raised here and leaves      *)
(* start() through the pool's with block.                                  *)
Collect ==
    /\ pc = "wait"
    /\ ResultsReady
    /\ LET res == ResultsOf(chunk, target) IN
       IF \E i \in DOMAIN res : res[i] = Raised
       THEN /\ pc' = "failed"
            /\ UNCHANGED <<process_results, ri>>
       ELSE /\ process_results' = res
            /\ ri' = 1
            /\ pc' = "results"
    /\ UNCHANGED <<inflight, batchFailed>>
    /\ UNCHANGED <<progress, csv, target, resume, config, start_from, tail,
                   count, index, chunk, status, notified, evaluated, runEval,
                   dispatched, loaded, csv0, wroteAfter, writes, lastWrite,
                   runs, wordlist, num_processes>>

(* the failure of the batch swallowed: the loop goes on with no outcomes *)
BatchFailIgnored ==
    /\ pc = "wait"
    /\ ResultsReady
    /\ pc' = "results"
    /\ batchFailed' = TRUE
    /\ inflight' = {}
    /\ process_results' = <<>>
    /\ ri' = 1
    /\ UNCHANGED <<progress, csv, target, resume, config, start_from, tail,
                   count, index, chunk, status, notified, evaluated, runEval,
                   dispatched, loaded, csv0, wroteAfter, writes, lastWrite,
                   runs, wordlist, num_processes>>

(* Lines 128-129, the collection failing: results.wait() has returned,     *)
(* results.get() raises, the with block terminates the pool and the        *)
(* exception leaves start().  Nothing after line 129 runs.                 *)
BatchFail ==
    /\ pc = "wait"
    /\ ResultsReady
    /\ pc' = "failed"
    /\ batchFailed' = TRUE
    /\ inflight' = {}
    /\ UNCHANGED <<progress, csv, target, resume, config, start_from, tail,
                   count, index, chunk, process_results, ri, status, notified,
                   evaluated, runEval, dispatched, loaded, csv0, wroteAfter,
                   writes, lastWrite, runs, wordlist, num_processes>>

(* Lines 130-132: the next outcome is no match: continue. *)
SkipResult ==
    /\ pc = "results"
    /\ ri <= Len(process_results)
    /\ ~process_results[ri][1]
    /\ ri' = ri + 1
    /\ UNCHANGED <<progress, csv, target, pc, resume, config, start_from, tail,
                   count, index, chunk, inflight, process_results, status,
                   notified, evaluated, runEval, dispatched, loaded, csv0,
                   wroteAfter, writes, lastWrite,
                   runs, wordlist,
                   num_processes, batchFailed>>

(* the callback reached without the row in the store *)
RecordNotWritten ==
    /\ pc = "results"
    /\ ri <= Len(process_results)
    /\ process_results[ri][1]
    /\ pc' = "notify"
    /\ UNCHANGED <<progress, csv, target, resume, config, start_from, tail,
                   count, index, chunk, inflight, process_results, ri, status,
                   notified, evaluated, runEval, dispatched, loaded, csv0,
                   wroteAfter, writes, lastWrite,
                   runs, wordlist,
                   num_processes, batchFailed>>

(* the store opened for writing instead of appending: the row replaces it *)
RecordOverwrite ==
    /\ pc = "results"
    /\ ri <= Len(process_results)
    /\ process_results[ri][1]
    /\ csv' = <<process_results[ri][2]>>
    /\ pc' = "notify"
    /\ UNCHANGED <<progress, target, resume, config, start_from, tail, count,
                   index, chunk, inflight, process_results, ri, status,
                   notified, evaluated, runEval, dispatched, loaded, csv0,
                   wroteAfter, writes, lastWrite, runs, wordlist,
                   num_processes, batchFailed>>

(* Lines 134-137: the next outcome is a match: append its row to the       *)
(* store and close the file.                                               *)
Record ==
    /\ pc = "results"
    /\ ri <= Len(process_results)
    /\ process_results[ri][1]
    /\ csv' = Append(csv, process_results[ri][2])
    /\ pc' = "notify"
    /\ UNCHANGED <<progress, target, resume, config, start_from, tail, count,
                   index, chunk, inflight, process_results, ri, status,
                   notified, evaluated, runEval, dispatched, loaded, csv0,
                   wroteAfter, writes, lastWrite,
                   runs, wordlist,
                   num_processes, batchFailed>>

(* Line 138: update_list_func(seeds, address) *)
Notify ==
    /\ pc = "notify"
    /\ notified' = Append(notified, process_results[ri][2])
    /\ ri' = ri + 1
    /\ pc' = "results"
    /\ UNCHANGED <<progress, csv, target, resume, config, start_from, tail,
                   count, index, chunk, inflight, process_results, status,
                   evaluated, runEval, dispatched, loaded, csv0, wroteAfter,
                   writes, lastWrite,
                   runs, wordlist,
                   num_processes, batchFailed>>

(* Number of the batch just completed, counted from 1 in this call. *)
BatchNo == count - EnumStart(start_from)

(* Lines 140-143, after the last outcome of the batch: every tenth index   *)
(* set config["progress"] and save the config.                             *)
Checkpoint ==
    /\ pc = "results"
    /\ ri > Len(process_results)
    /\ IF ShouldCheckpoint(index)
       THEN /\ config' = ProcessCount(index)
            /\ progress' = config'
            /\ wroteAfter' = wroteAfter \cup {BatchNo}
            /\ writes' = writes + 1
            /\ lastWrite' = config'
       ELSE UNCHANGED <<config, progress, wroteAfter, writes, lastWrite>>
    /\ pc' = "loop"
    /\ UNCHANGED <<csv, target, resume, start_from, tail, count, index, chunk,
                   inflight, process_results, ri, status, notified, evaluated,
                   runEval, dispatched, loaded, csv0, runs, wordlist,
                   num_processes, batchFailed>>

(* The process is killed at any point of a run: the files keep what was    *)
(* written, everything in memory is lost.                                  *)
Crash ==
    /\ pc \notin {"idle", "done", "crashed"}
    /\ pc' = "crashed"
    /\ resume' = FALSE
    /\ config' = 0
    /\ start_from' = 0
    /\ tail' = <<>>
    /\ count' = 0
    /\ index' = 0
    /\ chunk' = <<>>
    /\ inflight' = {}
    /\ process_results' = <<>>
    /\ ri' = 0
    /\ status' = <<"none">>
    /\ notified' = <<>>
    /\ runEval' = {}
    /\ dispatched' = <<>>
    /\ loaded' = 0
    /\ csv0' = <<Header>>
    /\ wroteAfter' = {}
    /\ writes' = 0
    /\ wordlist' = Wordlist
    /\ batchFailed' = FALSE
    /\ UNCHANGED <<progress, csv, target, evaluated, lastWrite, runs,
                   num_processes>>

Next ==
    \/ \E r \in BOOLEAN : Start(r, Wordlist)
    \/ Exhausted
    \/ Dispatch
    \/ \E c \in inflight : Worker(c)
    \/ Collect
    \/ BatchFail
    \/ SkipResult
    \/ Record
    \/ Notify
    \/ Checkpoint
    \/ Crash

Spec == Init /\ [][Next]_vars

(***************************************************************************)
(* One call of start() over the inputs it can meet: the files as earlier   *)
(* runs with any pool on any machine have left them, the wordlist, the     *)
(* machine's processor count.                                              *)
(***************************************************************************)
(* config["progress"] as found: 0 from get_config's default, or a value    *)
(* saved at line 142, always a multiple of the 1000 of line 120 and not    *)
(* bounded by the size of the space of the present wordlist.               *)
ProgressChoices ==
    {p \in 0..(Len(combinations) + 2 * PerProcess) : p % PerProcess = 0}

(* found_wallets.csv as found: the header alone (lines 48-51), or the      *)
(* header and a row appended by an earlier run.                            *)
StoreChoices ==
    { <<Header>>,
      <<Header, <<Normalize(combinations[1]),
                  CryptoWallet(Normalize(combinations[1])).address>> >> }

(* multiprocessing.cpu_count(): the machine of the model, or a larger one *)
ProcessorCounts == {NumProcesses, NumProcesses + 2}

InitInputs ==
    /\ progress \in ProgressChoices
    /\ csv \in StoreChoices
    /\ target \in TargetChoices
    /\ pc = "idle"
    /\ resume = FALSE
    /\ config = 0
    /\ start_from = 0
    /\ tail = <<>>
    /\ count = 0
    /\ index = 0
    /\ chunk = <<>>
    /\ inflight = {}
    /\ process_results = <<>>
    /\ ri = 0
    /\ status = <<"none">>
    /\ notified = <<>>
    /\ evaluated = {}
    /\ runEval = {}
    /\ dispatched = <<>>
    /\ loaded = 0
    /\ csv0 = <<Header>>
    /\ wroteAfter = {}
    /\ writes = 0
    /\ lastWrite = 0
    /\ runs = 0
    /\ wordlist = Wordlist
    /\ num_processes \in ProcessorCounts
    /\ batchFailed = FALSE

NextInputs ==
    \/ \E r \in BOOLEAN, w \in Wordlists : runs = 0 /\ Start(r, w)
    \/ Exhausted
    \/ Dispatch
    \/ \E c \in inflight : Worker(c)
    \/ Collect
    \/ BatchFail
    \/ SkipResult
    \/ Record
    \/ Notify
    \/ Checkpoint

SpecInputs == InitInputs /\ [][NextInputs]_vars

(***************************************************************************)
(* Properties                                                              *)
(***************************************************************************)
Size == Len(CombinationsOf(wordlist))

Running == pc \in {"loop", "wait", "results", "notify"}

(* a call of start() has begun and no crash has followed it *)
InRun == Running \/ pc \in {"done", "failed"}

(* rows this call of start() has appended to the store *)
RowsOfRun == SubSeq(csv, Len(csv0) + 1, Len(csv))

(* ranks of this call whose whole batch has been evaluated *)
FullyEvaluated ==
    IF inflight = {} THEN runEval
    ELSE runEval \ {RankOf(chunk[i]) : i \in DOMAIN chunk}

(* the derivation of the candidate of rank r, and whether it is searched *)
WalletOf(r) == CryptoWallet(Normalize(CombinationsOf(wordlist)[r + 1]))
Matches(r) == WalletOf(r).kind = "address" /\ WalletOf(r).address \in target
RowOf(r) == <<Normalize(CombinationsOf(wordlist)[r + 1]), WalletOf(r).address>>

Occurrences(rows, row) == Cardinality({i \in DOMAIN rows : rows[i] = row})

(* C1: within one call of start(), from rank 0 or resumed from a multiple  *)
(* of the batch size, a value written to the persisted progress is at most *)
(* start_from plus the number of candidates of fully evaluated batches,    *)
(* and every rank from start_from up to it has been evaluated by the call. *)
C1_CheckpointWithinEvaluated ==
    (pc # "crashed" /\ writes > 0 /\ start_from % chunk_size = 0) =>
        /\ progress <= start_from + Cardinality(FullyEvaluated)
        /\ \A r \in start_from..(progress - 1) : r \in FullyEvaluated

C1_Witness ==
    /\ resume
    /\ start_from > 0
    /\ writes > 0
    /\ pc = "wait"
    /\ inflight # {}

(* C2: in every reachable state, every rank below the persisted progress   *)
(* has been evaluated and, if its identifier is searched, has its row in   *)
(* the match store.                                                        *)
C2_ProgressNeverAhead ==
    \A r \in 0..(progress - 1) :
        /\ r \in evaluated
        /\ Matches(r) => Occurrences(csv, RowOf(r)) >= 1

(* C3: from a fresh start on, through the crashes and resumed runs that   *)
(* follow it, a value saved to the persisted progress is at least the last *)
(* value saved before it and at least the rank the saving run started      *)
(* from.                                                                   *)
C3_ProgressNeverDecreases ==
    [][writes' = writes + 1 =>
          /\ progress' >= lastWrite
          /\ progress' >= start_from]_vars

C3_Witness ==
    /\ runs = 3
    /\ resume
    /\ start_from > chunk_size
    /\ writes > 0
    /\ lastWrite = start_from

(* C4: candidates in flight all belong to the current batch, and the       *)
(* coordinating process is past results.get() only when none is in flight, *)
(* so a batch is dispatched only after the batch before it is collected.   *)
C4_BatchesSequential ==
    /\ inflight \subseteq Range(chunk)
    /\ (pc # "wait" => inflight = {})

C4_Witness ==
    /\ pc = "wait"
    /\ index >= 0
    /\ inflight # {}
    /\ inflight # Range(chunk)

(* C5: when a run exhausts the space, every rank of the space has been    *)
(* evaluated since the fresh start; and a resumed run evaluates (so        *)
(* re-evaluates) only ranks at or above the progress it loaded.            *)
C5_ResumeCompleteness ==
    /\ (pc = "done" => evaluated = 0..(Size - 1))
    /\ ((Running \/ pc = "done") /\ resume =>
            \A r \in runEval : r >= loaded)

(* C6: a resumed run dispatches the candidate of rank P first, P the       *)
(* progress it loaded, and handles no candidate of a rank below P.         *)
C6_ResumeStartsAtProgress ==
    ((Running \/ pc = "done") /\ resume) =>
        /\ start_from = loaded
        /\ (dispatched # <<>> =>
                /\ loaded < Size
                /\ dispatched[1] = CombinationsOf(wordlist)[loaded + 1])
        /\ \A i \in DOMAIN dispatched : RankOf(dispatched[i]) >= loaded
        /\ \A r \in runEval : r >= loaded

C6_Witness ==
    /\ resume
    /\ loaded > chunk_size
    /\ Len(dispatched) = chunk_size
    /\ runEval # {}

(* C7: when a run ends because the space is exhausted, the persisted       *)
(* progress equals the size of the space.                                  *)
C7_FinalProgressIsSize ==
    pc = "done" => progress = Size

(* C8: when a run has completed, the rows it appended hold the row         *)
(* (normalized phrase, identifier) of every evaluated candidate whose      *)
(* identifier is searched exactly once, and no other row.                  *)
C8_MatchCorrectness ==
    pc = "done" =>
        /\ \A r \in runEval :
              Occurrences(RowsOfRun, RowOf(r)) = IF Matches(r) THEN 1 ELSE 0
        /\ Len(RowsOfRun) = Cardinality({r \in runEval : Matches(r)})
        /\ \A i \in DOMAIN RowsOfRun :
              \A j \in DOMAIN RowsOfRun[i][1] :
                  RowsOfRun[i][1][j] \in {"a", "b", "c", "d", " "}

C8_Witness ==
    /\ pc = "done"
    /\ ~resume
    /\ Len(RowsOfRun) = 3
    /\ \E r \in runEval : WalletOf(r).kind = "ValueError"
    /\ \E r \in runEval : WalletOf(r).kind = "Exception"
    /\ \E r \in runEval : WalletOf(r).kind = "address" /\ ~Matches(r)

(* C9: the calls of the match callback are, in order, the rows the run has *)
(* appended to the store, each once; a row without its call exists only    *)
(* between the append and the call.                                        *)
C9_NotifyAfterRecord ==
    (Running \/ pc = "done") =>
        /\ Len(notified) <= Len(RowsOfRun)
        /\ notified = SubSeq(RowsOfRun, 1, Len(notified))
        /\ Len(RowsOfRun) - Len(notified) = IF pc = "notify" THEN 1 ELSE 0
        /\ \A i, j \in DOMAIN notified : notified[i] = notified[j] => i = j

C9_Witness ==
    /\ pc = "notify"
    /\ Len(notified) = 1
    /\ Len(RowsOfRun) = 2

(* batches of this call whose checkpoint decision has been taken *)
Decided == IF pc \in {"loop", "done"} THEN BatchNo ELSE BatchNo - 1

(* C10 as stated: in a fresh run a save follows batch m, counted from 1,   *)
(* exactly when m is a multiple of 10.                                     *)
C10_SaveEveryTenthBatch ==
    ((Running \/ pc = "done") /\ ~resume) =>
        \A m \in 1..Decided : m \in wroteAfter <=> m % CheckpointEvery = 0

(* C10 amended: in a fresh run a save follows batch m, counted from 1,     *)
(* exactly when m - 2 is a multiple of 10 (m = 2, 12, 22, ...).            *)
C10_SaveEveryTenthIndex ==
    ((Running \/ pc = "done") /\ ~resume) =>
        \A m \in 1..Decided :
            m \in wroteAfter <=> (m - 2) % CheckpointEvery = 0

C10_Witness ==
    /\ ~resume
    /\ pc = "done"
    /\ Decided = 12
    /\ wroteAfter = {2, 12}

(* C11: in a resumed run the records the store held when the run started  *)
(* stay, unchanged and in order, as a prefix of the store in every later   *)
(* state of the run.                                                       *)
C11_StoreAppendOnly ==
    (InRun /\ resume) =>
        /\ Len(csv0) <= Len(csv)
        /\ csv0 = SubSeq(csv, 1, Len(csv0))

C11_Witness ==
    /\ resume
    /\ pc = "done"
    /\ Len(csv0) > 2
    /\ Len(csv) > Len(csv0)

(* C12: in every state of a fresh run the first record of the store is    *)
(* the header and every other record is a match found by this run: the     *)
(* store holds the header and the rows this run has recorded, no more.     *)
C12_FreshRunReheaders ==
    (InRun /\ ~resume) =>
        /\ csv[1] = Header
        /\ Len(csv) = 1 + Len(notified) + (IF pc = "notify" THEN 1 ELSE 0)
        /\ \A i \in 2..Len(csv) :
              \E r \in runEval : Matches(r) /\ csv[i] = RowOf(r)

(* a second, fresh run after a run that had recorded the matches of its    *)
(* first two batches and saved: it has recorded one match so far           *)
C12_Witness ==
    /\ ~resume
    /\ runs = 2
    /\ target # {}
    /\ progress > 0
    /\ writes = 0
    /\ pc = "notify"
    /\ Len(csv) = 2

(* the derivation of a candidate fails *)
Fails(c) == CryptoWallet(Normalize(c)).kind # "address"

(* C13: a candidate whose derivation fails, with ValueError or any other   *)
(* exception, gets the no-match outcome from process and no row in the     *)
(* store; the outcomes of its whole batch are collected, the run stops     *)
(* before the end of the space only when the collection itself fails, and  *)
(* a run that ends has evaluated every rank from its start rank on.        *)
C13_FailuresNeverEscalate ==
    InRun =>
        /\ \A i \in DOMAIN dispatched :
              Fails(dispatched[i]) =>
                  /\ process(dispatched[i], target) = NoMatch
                  /\ \A j \in DOMAIN RowsOfRun :
                        RowsOfRun[j][1] # Normalize(dispatched[i])
        /\ (pc \in {"results", "notify"} =>
                /\ Len(process_results) = Len(chunk)
                /\ \A i \in DOMAIN chunk :
                      Fails(chunk[i]) => process_results[i] = NoMatch)
        /\ (pc = "failed" => batchFailed)
        /\ (pc = "done" => runEval = start_from..(Size - 1))

(* a run has ended after a batch whose first candidate failed with         *)
(* ValueError and a batch whose second candidate failed otherwise          *)
C13_Witness ==
    /\ pc = "done"
    /\ \E r \in runEval :
          WalletOf(r).kind = "ValueError" /\ r % chunk_size = 0
    /\ \E r \in runEval :
          /\ WalletOf(r).kind = "Exception"
          /\ r + chunk_size \in runEval
    /\ Len(RowsOfRun) > 0

Max(S) == CHOOSE x \in S : \A y \in S : y <= x

(* C14: when collecting the outcomes of a batch raises, the run is halted  *)
(* with that batch the last one dispatched, no row of a candidate of the   *)
(* batch is in the store, no save follows the batch, and the persisted     *)
(* progress is the value of the last save before it (the loaded value if   *)
(* the run has saved nothing).                                             *)
C14_BatchFailureHalts ==
    batchFailed =>
        /\ pc = "failed"
        /\ SubSeq(dispatched, Len(dispatched) - Len(chunk) + 1,
                  Len(dispatched)) = chunk
        /\ \A i \in DOMAIN chunk : \A j \in DOMAIN RowsOfRun :
              RowsOfRun[j][1] # Normalize(chunk[i])
        /\ BatchNo \notin wroteAfter
        /\ progress = IF wroteAfter = {} THEN loaded
                      ELSE (EnumStart(start_from) + Max(wroteAfter))
                               * chunk_size

(* the failed batch holds a matching candidate and a save was due after it *)
C14_Witness ==
    /\ batchFailed
    /\ ShouldCheckpoint(index)
    /\ \E i \in DOMAIN chunk : Matches(RankOf(chunk[i]))
    /\ Len(dispatched) > Len(chunk)

(* C15 as stated: with fewer words than the phrase length the call of     *)
(* start() fails at once: it never enters its loop and never completes.    *)
C15_SmallPoolRejected ==
    (runs > 0 /\ Len(wordlist) < PhraseLen) => pc \notin {"loop", "done"}

(* C16 as stated: once a batch has completed, the count last given to the *)
(* status callback is the start rank of the run plus the number of         *)
(* candidates the run has evaluated, the batch just completed included.    *)
C16_StatusAfterBatch ==
    (pc \in {"results", "notify", "loop", "done"} /\ dispatched # <<>>) =>
        status = <<"Checking Wallet", start_from + Cardinality(runEval),
                   num_processes>>

(* C16 amended: in a run started at a multiple of the batch size the       *)
(* status callback is called when a batch is taken, before it is           *)
(* dispatched; the count it gets is the start rank of the run plus the     *)
(* candidates of the batches completed before that batch, and it stays the *)
(* last count reported until the next batch is taken and after the run has *)
(* ended.                                                                  *)
C16_StatusBeforeBatch ==
    (InRun /\ start_from % chunk_size = 0) =>
        status = IF dispatched = <<>> THEN <<"Starting Process...">>
                 ELSE <<"Checking Wallet",
                        start_from + Len(dispatched) - Len(chunk),
                        num_processes>>

C16_Witness ==
    /\ pc = "done"
    /\ resume
    /\ start_from > 0
    /\ Len(dispatched) > 2 * chunk_size
    /\ status[2] = Size - chunk_size

(* The lexicographic enumeration, defined without the generator: a       *)
(* candidate is the tuple of the positions of its words in the pool; the   *)
(* candidates before it are those that agree with it up to some place k    *)
(* and have there a smaller position not used before k, with any           *)
(* arrangement of the words left in the remaining places.                  *)
RECURSIVE Arrangements(_, _)
Arrangements(m, r) ==
    IF r = 0 THEN 1
    ELSE IF m < r THEN 0
    ELSE m * Arrangements(m - 1, r - 1)

RECURSIVE SumTo(_, _)
SumTo(f, k) == IF k = 0 THEN 0 ELSE f[k] + SumTo(f, k - 1)

PositionsOf(c) ==
    [k \in 1..Len(c) |-> CHOOSE i \in 1..Len(wordlist) : wordlist[i] = c[k]]

LexSize == Arrangements(Len(wordlist), PhraseLen)

LexRank(c) ==
    LET p == PositionsOf(c)
        n == Len(wordlist)
        before == [k \in 1..PhraseLen |->
                     Cardinality({x \in 1..(p[k] - 1) :
                                     \A j \in 1..(k - 1) : p[j] # x})
                         * Arrangements(n - k, PhraseLen - k)]
    IN  SumTo(before, PhraseLen)

(* C17: for every start rank R the i-th candidate a run started at R       *)
(* dispatches is the candidate of lexicographic rank R + i - 1, and a run  *)
(* that ends has dispatched all the candidates of rank R and above: the    *)
(* full lexicographic enumeration with its first R elements dropped.       *)
C17_SkipInvariance ==
    InRun =>
        /\ \A i \in DOMAIN dispatched :
              /\ Len(dispatched[i]) = PhraseLen
              /\ \A j, k \in 1..PhraseLen :
                    dispatched[i][j] = dispatched[i][k] => j = k
              /\ LexRank(dispatched[i]) = start_from + i - 1
        /\ (pc = "done" =>
                Len(dispatched) =
                    IF start_from <= LexSize THEN LexSize - start_from ELSE 0)

(* a run resumed inside a batch of the three-word pool has ended *)
C17_Witness ==
    /\ pc = "done"
    /\ resume
    /\ wordlist = Wordlist3
    /\ start_from % chunk_size # 0
    /\ Len(dispatched) > 1

(* C18: a resumed run that loaded a progress at or above the size of the  *)
(* space dispatches nothing, records and notifies nothing, saves nothing   *)
(* and leaves the persisted progress and the store as it found them.       *)
C18_ResumePastEnd ==
    (InRun /\ resume /\ loaded >= Size) =>
        /\ pc \in {"loop", "done"}
        /\ dispatched = <<>>
        /\ runEval = {}
        /\ inflight = {}
        /\ notified = <<>>
        /\ writes = 0
        /\ progress = loaded
        /\ csv = csv0

(* such a run has ended, over a pool with candidates to search for and a   *)
(* store holding a row                                                     *)
C18_Witness ==
    /\ pc = "done"
    /\ resume
    /\ loaded > Size
    /\ Size > 0
    /\ target # {}
    /\ Len(csv) > 1

(* candidates this call has evaluated beyond the persisted progress *)
Lag == Cardinality(runEval) - progress

(* between two batches of a fresh run that has saved, or at its end *)
FreshBoundary == ~resume /\ writes > 0 /\ pc \in {"loop", "done"}

(* C19 as stated: at every batch boundary of a fresh run that has saved,   *)
(* the persisted progress is behind the number of evaluated candidates by  *)
(* at least one batch size and at most eleven.                             *)
C19_LagAtLeastOneBatch ==
    FreshBoundary => (chunk_size <= Lag /\ Lag <= 11 * chunk_size)

(* C19 amended: at every batch boundary of a fresh run that has saved, the *)
(* persisted progress is the start rank of the last batch followed by a    *)
(* save; it is behind the number of evaluated candidates by at least the   *)
(* length of that batch and at most eleven batch sizes, and by less than   *)
(* one batch size only when that batch is the short last batch of the      *)
(* space.                                                                  *)
C19_LagAtLeastSavedBatch ==
    FreshBoundary =>
        /\ progress = (Max(wroteAfter) - 1) * chunk_size
        /\ Min(chunk_size, Size - progress) <= Lag
        /\ 1 <= Lag
        /\ Lag <= 11 * chunk_size
        /\ (Lag < chunk_size =>
                /\ tail = <<>>
                /\ BatchNo \in wroteAfter
                /\ Lag = Len(chunk)
                /\ Lag = Size % chunk_size)

(* the save after the short last batch of the three-word pool *)
C19_Witness ==
    /\ FreshBoundary
    /\ pc = "done"
    /\ Lag < chunk_size
    /\ progress > 0

(* ranks of the candidates of a sequence of rows, by their phrases *)
RanksOf(rows) ==
    [i \in DOMAIN rows |->
        CHOOSE r \in 0..(Size - 1) :
            Normalize(CombinationsOf(wordlist)[r + 1]) = rows[i][1]]

Increasing(f) == \A i, j \in DOMAIN f : i < j => f[i] < f[j]

(* C20: whatever the order in which the workers finish, the rows a run     *)
(* appends and the calls of the match callback it makes are in strictly    *)
(* increasing rank of their candidates, and a row of a candidate of the    *)
(* current batch is in the store only when no candidate of the batch is    *)
(* still in flight.                                                        *)
C20_RecordsInRankOrder ==
    InRun =>
        /\ Increasing(RanksOf(RowsOfRun))
        /\ Increasing(RanksOf(notified))
        /\ \A j \in DOMAIN RowsOfRun :
              RanksOf(RowsOfRun)[j] \in runEval
        /\ ((\E i \in DOMAIN chunk : \E j \in DOMAIN RowsOfRun :
                 RowsOfRun[j][1] = Normalize(chunk[i]))
                => /\ inflight = {}
                   /\ \A i \in DOMAIN chunk : RankOf(chunk[i]) \in runEval)

(* two matches of one batch recorded and notified *)
C20_Witness ==
    /\ pc = "results"
    /\ Len(notified) = 2
    /\ \A j \in DOMAIN notified :
          \E i \in DOMAIN chunk : notified[j][1] = Normalize(chunk[i])

====
